---- MODULE Spec2Model ----
(***************************************************************************)
(* Model of the job-seeker script (googleSearch.js, incremental version):  *)
(* buildQuery, the filter predicates, the persistence helpers, the         *)
(* paginated de-duplicating fetch loop fetchNewResults and main.           *)
(*                                                                         *)
(* A JavaScript string is a sequence of one-character strings; an optional *)
(* value (undefined / null / absent property) is the empty sequence and a  *)
(* present value v is <<v>>.                                                *)
(***************************************************************************)
EXTENDS Integers, Sequences, FiniteSets, TLC

(***************************************************************************)
(* Bounds of the model.                                                    *)
(***************************************************************************)
MaxTarget == 2
MaxPageLen == 2
MaxRequests == 2
MaxRuns == 2

(***************************************************************************)
(* String primitives of the JavaScript runtime.                            *)
(***************************************************************************)
IsSpace(c) == c \in {" ", "\n"}

LowerChar(c) ==
  CASE c = "A" -> "a"
    [] c = "B" -> "b"
    [] c = "C" -> "c"
    [] c = "X" -> "x"
    [] OTHER -> c

toLowerCase(s) == [i \in 1..Len(s) |-> LowerChar(s[i])]

RECURSIVE trimStart(_)
trimStart(s) ==
  IF s # <<>> /\ IsSpace(Head(s)) THEN trimStart(Tail(s)) ELSE s

RECURSIVE trimEnd(_)
trimEnd(s) ==
  IF s # <<>> /\ IsSpace(s[Len(s)]) THEN trimEnd(SubSeq(s, 1, Len(s) - 1)) ELSE s

trim(s) == trimEnd(trimStart(s))

includes(text, sub) ==
  \E i \in 1..(Len(text) + 1) :
    /\ i + Len(sub) - 1 <= Len(text)
    /\ SubSeq(text, i, i + Len(sub) - 1) = sub

RECURSIVE join(_, _)
join(parts, sep) ==
  IF parts = <<>> THEN <<>>
  ELSE IF Len(parts) = 1 THEN parts[1]
  ELSE parts[1] \o sep \o join(Tail(parts), sep)

RECURSIVE split(_, _)
split(s, c) ==
  IF \A i \in 1..Len(s) : s[i] # c THEN <<s>>
  ELSE LET k == CHOOSE i \in 1..Len(s) :
                  s[i] = c /\ \A j \in 1..(i - 1) : s[j] # c
       IN  <<SubSeq(s, 1, k - 1)>> \o split(SubSeq(s, k + 1, Len(s)), c)

RECURSIVE filterTruthy(_)
filterTruthy(parts) ==
  IF parts = <<>> THEN <<>>
  ELSE IF Head(parts) # <<>> THEN <<Head(parts)>> \o filterTruthy(Tail(parts))
  ELSE filterTruthy(Tail(parts))

Range(s) == {s[i] : i \in 1..Len(s)}

(***************************************************************************)
(* new Date(str) for ISO calendar dates: a valid date carries a number     *)
(* that orders as the timestamp does; anything else is an Invalid Date,    *)
(* which compares false with everything.                                   *)
(***************************************************************************)
Digits == {"0", "1", "2", "3", "4", "5", "6", "7", "8", "9"}

DigitVal(c) ==
  CASE c = "0" -> 0 [] c = "1" -> 1 [] c = "2" -> 2 [] c = "3" -> 3
    [] c = "4" -> 4 [] c = "5" -> 5 [] c = "6" -> 6 [] c = "7" -> 7
    [] c = "8" -> 8 [] c = "9" -> 9 [] OTHER -> 0

RECURSIVE NumVal(_)
NumVal(s) ==
  IF s = <<>> THEN 0 ELSE NumVal(SubSeq(s, 1, Len(s) - 1)) * 10 + DigitVal(s[Len(s)])

IsIsoDate(s) ==
  /\ Len(s) = 10
  /\ s[5] = "-" /\ s[8] = "-"
  /\ \A i \in {1, 2, 3, 4, 6, 7, 9, 10} : s[i] \in Digits
  /\ NumVal(SubSeq(s, 6, 7)) \in 1..12
  /\ NumVal(SubSeq(s, 9, 10)) \in 1..31

NewDate(s) ==
  IF IsIsoDate(s)
  THEN [valid |-> TRUE,
        t |-> NumVal(SubSeq(s, 1, 4)) * 10000 + NumVal(SubSeq(s, 6, 7)) * 100
              + NumVal(SubSeq(s, 9, 10))]
  ELSE [valid |-> FALSE, t |-> 0]

DateLess(a, b) == a.valid /\ b.valid /\ a.t < b.t

(***************************************************************************)
(* normalizeUrl                                                            *)
(***************************************************************************)
normalizeUrl(url) == toLowerCase(trim(url))

normalizeAll(urls) == [i \in 1..Len(urls) |-> normalizeUrl(urls[i])]

(***************************************************************************)
(* buildQuery                                                              *)
(***************************************************************************)
Quote == <<"\"">>
OrSep == <<" ", "O", "R", " ">>
IntitleOp == <<"i", "n", "t", "i", "t", "l", "e", ":">>
SiteOp == <<"s", "i", "t", "e", ":">>
AfterOp == <<"a", "f", "t", "e", "r", ":">>

Quoted(k) == Quote \o k \o Quote
SiteTerm(domain) == SiteOp \o domain
quoteAll(terms) == [i \in 1..Len(terms) |-> Quoted(terms[i])]
siteAll(domains) == [i \in 1..Len(domains) |-> SiteTerm(domains[i])]

\* A list category is absent (<<>>) or present (<<list>>).
NonEmptyList(c) == c # <<>> /\ Len(c[1]) > 0

intitlePart(c) ==
  IF NonEmptyList(c.intitleKeywords)
  THEN IntitleOp \o <<"(">> \o join(quoteAll(c.intitleKeywords[1]), OrSep) \o <<")">>
  ELSE <<>>

keywordsPart(c) ==
  IF NonEmptyList(c.keywords)
  THEN <<"(">> \o join(quoteAll(c.keywords[1]), OrSep) \o <<")">>
  ELSE <<>>

domainsPart(c) ==
  IF NonEmptyList(c.domains)
  THEN <<"(">> \o join(siteAll(c.domains[1]), OrSep) \o <<")">>
  ELSE <<>>

locationsPart(c) ==
  IF NonEmptyList(c.locations)
  THEN <<"(">> \o join(quoteAll(c.locations[1]), OrSep) \o <<")">>
  ELSE <<>>

excludePart(c) ==
  IF NonEmptyList(c.avoidKeywords)
  THEN <<"-", "(">> \o join(quoteAll(c.avoidKeywords[1]), OrSep) \o <<")">>
  ELSE <<>>

datePart(c) == IF c.minDate # <<>> THEN AfterOp \o c.minDate ELSE <<>>

\* Variant: the parts joined without dropping the empty ones.
buildQueryNoFilter(c) ==
  join(<<intitlePart(c), keywordsPart(c), domainsPart(c),
         locationsPart(c), excludePart(c), datePart(c)>>, <<" ">>)

buildQuery(c) ==
  join(filterTruthy(<<intitlePart(c), keywordsPart(c), domainsPart(c),
                      locationsPart(c), excludePart(c), datePart(c)>>), <<" ">>)

(***************************************************************************)
(* containsAvoidKeyword, getPublishedDate                                  *)
(***************************************************************************)
containsAvoidKeyword(text, avoidKeywords) ==
  \E k \in 1..Len(avoidKeywords) :
    includes(toLowerCase(text), toLowerCase(avoidKeywords[k]))

\* The value returned from inside the loop over the metatags: <<>> is null.
RECURSIVE firstPublished(_)
firstPublished(meta) ==
  IF meta = <<>> THEN <<>>
  ELSE IF Head(meta).article # <<>> THEN <<NewDate(Head(meta).article)>>
  ELSE IF Head(meta).og # <<>> THEN <<NewDate(Head(meta).og)>>
  ELSE firstPublished(Tail(meta))

getPublishedDate(item) ==
  IF item.metatags # <<>> THEN firstPublished(item.metatags[1]) ELSE <<>>

(***************************************************************************)
(* Persistence helpers.  A file is a flag (does it exist) and its text.    *)
(***************************************************************************)
Newline == <<"\n">>

RECURSIVE keepNonBlank(_)
keepNonBlank(lines) ==
  IF lines = <<>> THEN <<>>
  ELSE IF Len(trim(Head(lines))) > 0 THEN <<Head(lines)>> \o keepNonBlank(Tail(lines))
  ELSE keepNonBlank(Tail(lines))

loadProcessedUrls(exists, text) ==
  IF ~exists THEN {}
  ELSE Range(normalizeAll(keepNonBlank(split(text, "\n"))))

\* The text saveProcessedUrls appends; it returns early on an empty list.
processedUrlsData(newUrls) == join(newUrls, Newline) \o Newline

RECURSIVE doubleQuotes(_)
doubleQuotes(str) ==
  IF str = <<>> THEN <<>>
  ELSE IF Head(str) = "\"" THEN <<"\"", "\"">> \o doubleQuotes(Tail(str))
  ELSE <<Head(str)>> \o doubleQuotes(Tail(str))

escapeCSV(str) == Quote \o doubleQuotes(str) \o Quote

CsvHeader == <<"T", "i", "t", "l", "e", ",", "U", "R", "L", "\n">>

csvRow(result) == escapeCSV(result.Title) \o <<",">> \o escapeCSV(result.URL) \o Newline

RECURSIVE csvRows(_)
csvRows(results) ==
  IF results = <<>> THEN <<>> ELSE csvRow(Head(results)) \o csvRows(Tail(results))

\* Variant: appendToCSV writes the header on every call.
csvAppendDataHeaderAlways(fileExists, results) == CsvHeader \o csvRows(results)

\* The text appendToCSV appends, given whether the file existed before.
csvAppendData(fileExists, results) ==
  IF ~fileExists THEN CsvHeader \o csvRows(results) ELSE csvRows(results)

(***************************************************************************)
(* The inputs: configurations, result items and endpoint responses.        *)
(***************************************************************************)
D2024 == <<"2", "0", "2", "4", "-", "1", "2", "-", "0", "1">>
D2025 == <<"2", "0", "2", "5", "-", "0", "1", "-", "0", "1">>
D2025b == <<"2", "0", "2", "5", "-", "0", "6", "-", "0", "1">>

NoTags == <<>>
Tag(a, o) == [article |-> a, og |-> o]

ItemPlain == [title |-> << <<"j">> >>, link |-> << <<"a">> >>, metatags |-> NoTags]
ItemAvoid ==
  [title |-> << <<"j", "x">> >>, link |-> << <<" ", "A">> >>, metatags |-> << <<>> >>]
ItemOld ==
  [title |-> << <<"j">> >>, link |-> << <<"b">> >>,
   metatags |-> << <<Tag(<<>>, <<>>), Tag(<<>>, D2024)>> >>]
ItemBlank ==
  [title |-> <<>>, link |-> <<>>, metatags |-> << <<Tag(D2025b, D2024)>> >>]

Items == {ItemPlain, ItemAvoid, ItemOld, ItemBlank}

\* data.items: absent, or an array of at most MaxPageLen items.  The response
\* fixes the length of the array; each item is drawn from Items when the for
\* loop reaches it.
ItemCounts == {<<>>} \cup {<<n>> : n \in 0..MaxPageLen}

\* data.queries.nextPage: absent, an empty array, or one entry with a
\* startIndex (0 stands for a missing or zero startIndex).
StartIndexes == {0, 91, 92}
NextPages == {<<>>, << <<>> >>} \cup {<< <<[startIndex |-> n]>> >> : n \in StartIndexes}

Responses == [items : ItemCounts, nextPage : NextPages]

KwX == <<"X">>
FixedLists ==
  [intitleKeywords |-> << << <<"j">> >> >>, keywords |-> << <<>> >>,
   domains |-> << << <<"w">> >> >>, locations |-> <<>>]

Configs ==
  {[intitleKeywords |-> FixedLists.intitleKeywords, keywords |-> FixedLists.keywords,
    domains |-> FixedLists.domains, locations |-> FixedLists.locations,
    avoidKeywords |-> <<ak>>, minDate |-> md, maxResults |-> n] :
     ak \in {<<>>, <<KwX>>}, md \in {<<>>, D2025}, n \in 0..MaxTarget}

\* The configurations of the runs: no filter configured, or both.
RunConfigs == {c \in Configs : (c.avoidKeywords[1] = <<>>) <=> (c.minDate = <<>>)}

\* processed_urls.txt before the first run: absent, or the hand-made sample.
InitialUrlLogs ==
  {[exists |-> FALSE, text |-> <<>>],
   [exists |-> TRUE, text |-> <<"B", " ", "\n", "\n">>]}

(***************************************************************************)
(* State.                                                                  *)
(***************************************************************************)
VARIABLES
  config,        \* config.json, read once
  urlExists,     \* processed_urls.txt exists
  urlText,       \* its text
  csvExists,     \* google_search_results.csv exists
  csvText,       \* its text
  pc,            \* position of main / fetchNewResults
  query,         \* main: query
  processedUrls, \* main: the set loaded at the start of the run
  startIndex,    \* fetchNewResults: offset cursor
  newResults,    \* fetchNewResults: accumulator
  data,          \* fetchNewResults: decoded response of the current page
  examined,      \* fetchNewResults: items of the current page the for loop has passed
  item,          \* fetchNewResults: the item of the last iteration of the for loop
  verdict,       \* history: outcome of the last iteration of the for loop
  lastPage,      \* history: what the last response of the run carried
  fetchError,    \* history: the last page request raised an error
  delayed,       \* history: a delay was taken since the last request
  runs,          \* history: runs of main started
  requests,      \* history: page requests issued
  status,        \* history: how the last run ended
  ioFailed,      \* history: some file append failed
  rowsThisRun,   \* history: records appended to the CSV in this run
  emitted,       \* history: URLs of the CSV rows of earlier runs
  startFiles     \* history: the two files as they were when the run started

vars ==
  <<config, urlExists, urlText, csvExists, csvText, pc, query, processedUrls,
    startIndex, newResults, data, examined, item, verdict, lastPage, fetchError,
    delayed, runs, requests,
    status, ioFailed, rowsThisRun, emitted, startFiles>>

fileVars == <<urlExists, urlText, csvExists, csvText>>
scanVars == <<data, examined, item, verdict>>
fetchVars == <<startIndex, newResults, scanVars, lastPage, fetchError, delayed>>

Files == [urlExists |-> urlExists, urlText |-> urlText,
          csvExists |-> csvExists, csvText |-> csvText]

NoPage == [received |-> FALSE, hasItems |-> FALSE, hasNext |-> FALSE]

InitRest ==
  /\ \E f \in InitialUrlLogs : urlExists = f.exists /\ urlText = f.text
  /\ csvExists = FALSE
  /\ csvText = <<>>
  /\ pc = "idle"
  /\ query = <<>>
  /\ processedUrls = {}
  /\ startIndex = 1
  /\ newResults = <<>>
  /\ data = <<>>
  /\ examined = 0
  /\ item = <<>>
  /\ verdict = "none"
  /\ lastPage = NoPage
  /\ fetchError = FALSE
  /\ delayed = FALSE
  /\ runs = 0
  /\ requests = 0
  /\ status = "none"
  /\ ioFailed = FALSE
  /\ rowsThisRun = <<>>
  /\ emitted = {}
  /\ startFiles = Files

Init == config \in RunConfigs /\ InitRest

(***************************************************************************)
(* fetchNewResults: the per-item filter.                                   *)
(***************************************************************************)
OrEmpty(v) == IF v = <<>> THEN <<>> ELSE v[1]

minDateObj(cfg) == IF cfg.minDate # <<>> THEN <<NewDate(cfg.minDate)>> ELSE <<>>

\* Variant: the lookup without normalizing the item's URL.
alreadyProcessedRaw(urlItem, processed) == urlItem \in processed

alreadyProcessed(urlItem, processed) == normalizeUrl(urlItem) \in processed

\* Variant: the in-run comparison on the raw URLs.
alreadyCollectedRaw(urlItem, results) ==
  \E i \in 1..Len(results) : results[i].URL = urlItem

alreadyCollected(urlItem, results) ==
  \E i \in 1..Len(results) : normalizeUrl(results[i].URL) = normalizeUrl(urlItem)

\* Variant: an item without a published date counts as too old.
beforeMinDateMandatory(it, cfg) ==
  /\ minDateObj(cfg) # <<>>
  /\ LET publishedDate == getPublishedDate(it)
     IN  publishedDate = <<>> \/ DateLess(publishedDate[1], minDateObj(cfg)[1])

beforeMinDate(it, cfg) ==
  /\ minDateObj(cfg) # <<>>
  /\ LET publishedDate == getPublishedDate(it)
     IN  publishedDate # <<>> /\ DateLess(publishedDate[1], minDateObj(cfg)[1])

\* Variant: the filter without the avoid-keyword test.
VerdictNoAvoid(it, processed, results, cfg) ==
  IF alreadyProcessed(OrEmpty(it.link), processed) THEN "processed"
  ELSE IF alreadyCollected(OrEmpty(it.link), results) THEN "collected"
  ELSE IF beforeMinDate(it, cfg) THEN "date"
  ELSE "accept"

Verdict(it, processed, results, cfg) ==
  IF alreadyProcessed(OrEmpty(it.link), processed) THEN "processed"
  ELSE IF alreadyCollected(OrEmpty(it.link), results) THEN "collected"
  ELSE IF containsAvoidKeyword(OrEmpty(it.title), cfg.avoidKeywords[1]) THEN "avoid"
  ELSE IF beforeMinDate(it, cfg) THEN "date"
  ELSE "accept"

\* Variant: the URLs are stored as returned, without normalizing them.
newRawUrls(results) == [i \in 1..Len(results) |-> results[i].URL]

\* main: newResults.map(result => normalizeUrl(result.URL))
newNormalizedUrls(results) == [i \in 1..Len(results) |-> normalizeUrl(results[i].URL)]

\* Google API limit on the start index.
OffsetCeiling == 91

Record(it) == [Title |-> OrEmpty(it.title), URL |-> OrEmpty(it.link)]

(***************************************************************************)
(* main, up to the call of fetchNewResults, and the initialisation of the  *)
(* fetch.  A run is one invocation of the script.                          *)
(***************************************************************************)
MainStart ==
  /\ pc = "idle"
  /\ runs < MaxRuns
  /\ runs' = runs + 1
  /\ query' = buildQuery(config)
  /\ processedUrls' = loadProcessedUrls(urlExists, urlText)
  /\ startIndex' = 1
  /\ newResults' = <<>>
  /\ data' = <<>>
  /\ examined' = 0
  /\ item' = <<>>
  /\ verdict' = "none"
  /\ lastPage' = NoPage
  /\ fetchError' = FALSE
  /\ delayed' = FALSE
  /\ status' = "running"
  /\ emitted' = emitted \cup {rowsThisRun[i].URL : i \in 1..Len(rowsThisRun)}
  /\ rowsThisRun' = <<>>
  /\ startFiles' = Files
  /\ pc' = "loop"
  /\ UNCHANGED <<config, fileVars, requests, ioFailed>>

(***************************************************************************)
(* fetchNewResults: the while test; a true test issues the page request.   *)
(***************************************************************************)
Request ==
  /\ pc = "loop"
  /\ Len(newResults) < config.maxResults
  /\ requests < MaxRequests
  /\ requests' = requests + 1
  /\ lastPage' = NoPage
  /\ delayed' = FALSE
  /\ pc' = "fetching"
  /\ UNCHANGED <<config, fileVars, query, processedUrls, startIndex, newResults,
                 scanVars, fetchError, runs, status, ioFailed, rowsThisRun, emitted,
                 startFiles>>

ExitLoop ==
  /\ pc = "loop"
  /\ ~(Len(newResults) < config.maxResults)
  /\ pc' = "returned"
  /\ UNCHANGED <<config, fileVars, query, processedUrls, fetchVars, runs, requests,
                 status, ioFailed, rowsThisRun, emitted, startFiles>>

\* Variant: a failed request is retried.
FetchFailsRetry ==
  /\ pc = "fetching"
  /\ fetchError' = TRUE
  /\ pc' = "loop"
  /\ UNCHANGED <<config, fileVars, query, processedUrls, startIndex, newResults,
                 scanVars, lastPage, delayed, runs, requests, status, ioFailed,
                 rowsThisRun, emitted, startFiles>>

\* fetch or res.json() rejects: the catch block breaks out of the loop.
FetchFails ==
  /\ pc = "fetching"
  /\ fetchError' = TRUE
  /\ pc' = "returned"
  /\ UNCHANGED <<config, fileVars, query, processedUrls, startIndex, newResults,
                 scanVars, lastPage, delayed, runs, requests, status, ioFailed,
                 rowsThisRun, emitted, startFiles>>

\* The body decodes to null: reading data.items throws outside the try block
\* and the run ends in main's catch handler.
FetchNull ==
  /\ pc = "fetching"
  /\ status' = "threw"
  /\ pc' = "idle"
  /\ UNCHANGED <<config, fileVars, query, processedUrls, fetchVars, runs, requests,
                 ioFailed, rowsThisRun, emitted, startFiles>>

HasItems(resp) == resp.items # <<>> /\ resp.items[1] > 0

HasNext(resp) ==
  /\ resp.nextPage # <<>>
  /\ resp.nextPage[1] # <<>>
  /\ resp.nextPage[1][1].startIndex # 0

\* A decoded response; without items the loop is left at once.
FetchOk ==
  /\ pc = "fetching"
  /\ \E resp \in Responses :
       /\ lastPage' = [received |-> TRUE, hasItems |-> HasItems(resp),
                       hasNext |-> HasNext(resp)]
       /\ IF HasItems(resp)
          THEN data' = <<resp>> /\ pc' = "scan"
          ELSE data' = <<>> /\ pc' = "returned"
  /\ UNCHANGED <<config, fileVars, query, processedUrls, startIndex, newResults,
                 examined, item, verdict, fetchError, delayed, runs, requests, status,
                 ioFailed, rowsThisRun, emitted, startFiles>>

\* Variant: the for loop without the early break at the target.
ExamineItemNoBreak ==
  /\ pc = "scan"
  /\ \E it \in Items :
       LET v == Verdict(it, processedUrls, newResults, config)
           pushed == IF v = "accept" THEN Append(newResults, Record(it)) ELSE newResults
       IN  /\ item' = <<it>>
           /\ verdict' = v
           /\ examined' = examined + 1
           /\ newResults' = pushed
           /\ pc' = IF examined' = data[1].items[1] THEN "afterPage" ELSE "scan"
  /\ UNCHANGED <<config, fileVars, query, processedUrls, startIndex, data, lastPage,
                 fetchError, delayed, runs, requests, status, ioFailed, rowsThisRun,
                 emitted, startFiles>>

(***************************************************************************)
(* One iteration of the for loop over data.items.                          *)
(***************************************************************************)
ExamineItem ==
  /\ pc = "scan"
  /\ \E it \in Items :
       LET v == Verdict(it, processedUrls, newResults, config)
           pushed == IF v = "accept" THEN Append(newResults, Record(it)) ELSE newResults
       IN  /\ item' = <<it>>
           /\ verdict' = v
           /\ examined' = examined + 1
           /\ newResults' = pushed
           /\ pc' = IF v = "accept" /\ Len(pushed) >= config.maxResults THEN "afterPage"
                    ELSE IF examined' = data[1].items[1] THEN "afterPage"
                    ELSE "scan"
  /\ UNCHANGED <<config, fileVars, query, processedUrls, startIndex, data, lastPage,
                 fetchError, delayed, runs, requests, status, ioFailed, rowsThisRun,
                 emitted, startFiles>>

\* Variant: pagination stops after a page when nothing has been accepted.
AfterPageStopOnNoAccept ==
  /\ pc = "afterPage"
  /\ LET nextPage == data[1].nextPage
     IN  IF Len(newResults) >= config.maxResults \/ newResults = <<>>
         THEN pc' = "returned" /\ UNCHANGED <<startIndex, status>>
         ELSE IF nextPage = <<>>
         THEN pc' = "returned" /\ UNCHANGED <<startIndex, status>>
         ELSE IF nextPage[1] = <<>>
         THEN pc' = "idle" /\ status' = "threw" /\ UNCHANGED startIndex
         ELSE IF nextPage[1][1].startIndex = 0
         THEN pc' = "returned" /\ UNCHANGED <<startIndex, status>>
         ELSE /\ startIndex' = nextPage[1][1].startIndex
              /\ pc' = IF startIndex' > OffsetCeiling THEN "returned" ELSE "delay"
              /\ UNCHANGED status
  /\ data' = <<>>
  /\ examined' = 0
  /\ item' = <<>>
  /\ verdict' = "none"
  /\ UNCHANGED <<config, fileVars, query, processedUrls, newResults, lastPage,
                 fetchError, delayed, runs, requests, ioFailed, rowsThisRun, emitted,
                 startFiles>>

\* Variant: the pagination goes on past the offset ceiling.
AfterPageNoCeiling ==
  /\ pc = "afterPage"
  /\ LET nextPage == data[1].nextPage
     IN  IF Len(newResults) >= config.maxResults
         THEN pc' = "returned" /\ UNCHANGED <<startIndex, status>>
         ELSE IF nextPage = <<>>
         THEN pc' = "returned" /\ UNCHANGED <<startIndex, status>>
         ELSE IF nextPage[1] = <<>>
         THEN pc' = "idle" /\ status' = "threw" /\ UNCHANGED startIndex
         ELSE IF nextPage[1][1].startIndex = 0
         THEN pc' = "returned" /\ UNCHANGED <<startIndex, status>>
         ELSE /\ startIndex' = nextPage[1][1].startIndex
              /\ pc' = "delay"
              /\ UNCHANGED status
  /\ data' = <<>>
  /\ examined' = 0
  /\ item' = <<>>
  /\ verdict' = "none"
  /\ UNCHANGED <<config, fileVars, query, processedUrls, newResults, lastPage,
                 fetchError, delayed, runs, requests, ioFailed, rowsThisRun, emitted,
                 startFiles>>

\* Variant: the next iteration starts without the delay.
AfterPageNoDelay ==
  /\ pc = "afterPage"
  /\ LET nextPage == data[1].nextPage
     IN  IF Len(newResults) >= config.maxResults
         THEN pc' = "returned" /\ UNCHANGED <<startIndex, status>>
         ELSE IF nextPage = <<>>
         THEN pc' = "returned" /\ UNCHANGED <<startIndex, status>>
         ELSE IF nextPage[1] = <<>>
         THEN pc' = "idle" /\ status' = "threw" /\ UNCHANGED startIndex
         ELSE IF nextPage[1][1].startIndex = 0
         THEN pc' = "returned" /\ UNCHANGED <<startIndex, status>>
         ELSE /\ startIndex' = nextPage[1][1].startIndex
              /\ pc' = IF startIndex' > OffsetCeiling THEN "returned" ELSE "loop"
              /\ UNCHANGED status
  /\ data' = <<>>
  /\ examined' = 0
  /\ item' = <<>>
  /\ verdict' = "none"
  /\ UNCHANGED <<config, fileVars, query, processedUrls, newResults, lastPage,
                 fetchError, delayed, runs, requests, ioFailed, rowsThisRun, emitted,
                 startFiles>>

(***************************************************************************)
(* After the for loop: target reached, or move to the next page.  The      *)
(* response is not read after this point (the next iteration declares a    *)
(* fresh one), so it is dropped here.                                      *)
(***************************************************************************)
AfterPage ==
  /\ pc = "afterPage"
  /\ LET nextPage == data[1].nextPage
     IN  IF Len(newResults) >= config.maxResults
         THEN pc' = "returned" /\ UNCHANGED <<startIndex, status>>
         ELSE IF nextPage = <<>>
         THEN pc' = "returned" /\ UNCHANGED <<startIndex, status>>
         ELSE IF nextPage[1] = <<>>
         THEN pc' = "idle" /\ status' = "threw" /\ UNCHANGED startIndex
         ELSE IF nextPage[1][1].startIndex = 0
         THEN pc' = "returned" /\ UNCHANGED <<startIndex, status>>
         ELSE /\ startIndex' = nextPage[1][1].startIndex
              /\ pc' = IF startIndex' > OffsetCeiling THEN "returned" ELSE "delay"
              /\ UNCHANGED status
  /\ data' = <<>>
  /\ examined' = 0
  /\ item' = <<>>
  /\ verdict' = "none"
  /\ UNCHANGED <<config, fileVars, query, processedUrls, newResults, lastPage,
                 fetchError, delayed, runs, requests, ioFailed, rowsThisRun, emitted,
                 startFiles>>

Delay ==
  /\ pc = "delay"
  /\ delayed' = TRUE
  /\ pc' = "loop"
  /\ UNCHANGED <<config, fileVars, query, processedUrls, startIndex, newResults,
                 scanVars, lastPage, fetchError, runs, requests, status, ioFailed,
                 rowsThisRun, emitted, startFiles>>

\* Variant: main appends to the CSV without testing for an empty result.
MainPersistAlways ==
  /\ pc = "returned"
  /\ pc' = "idle"
  /\ \E failure \in {"none", "csv", "urls"} :
       /\ IF failure = "csv"
          THEN UNCHANGED <<csvExists, csvText, rowsThisRun>>
          ELSE /\ csvExists' = TRUE
               /\ csvText' = csvText \o csvAppendData(csvExists, newResults)
               /\ rowsThisRun' = newResults
       /\ IF failure = "none" /\ Len(newResults) > 0
          THEN /\ urlExists' = TRUE
               /\ urlText' = urlText \o
                    processedUrlsData(newNormalizedUrls(newResults))
          ELSE UNCHANGED <<urlExists, urlText>>
       /\ status' = IF failure = "none" THEN "completed" ELSE "threw"
       /\ ioFailed' = (ioFailed \/ failure # "none")
  /\ UNCHANGED <<config, query, processedUrls, fetchVars, runs, requests, emitted,
                 startFiles>>

(***************************************************************************)
(* main after fetchNewResults has returned.  An append to either file may  *)
(* fail; the exception ends the run in main's catch handler.               *)
(***************************************************************************)
MainPersist ==
  /\ pc = "returned"
  /\ pc' = "idle"
  /\ IF Len(newResults) > 0
     THEN \E failure \in {"none", "csv", "urls"} :
            /\ IF failure = "csv"
               THEN UNCHANGED <<csvExists, csvText, rowsThisRun>>
               ELSE /\ csvExists' = TRUE
                    /\ csvText' = csvText \o csvAppendData(csvExists, newResults)
                    /\ rowsThisRun' = newResults
            /\ IF failure = "none"
               THEN /\ urlExists' = TRUE
                    /\ urlText' = urlText \o
                         processedUrlsData(newNormalizedUrls(newResults))
               ELSE UNCHANGED <<urlExists, urlText>>
            /\ status' = IF failure = "none" THEN "completed" ELSE "threw"
            /\ ioFailed' = (ioFailed \/ failure # "none")
     ELSE /\ status' = "completed"
          /\ UNCHANGED <<fileVars, rowsThisRun, ioFailed>>
  /\ UNCHANGED <<config, query, processedUrls, fetchVars, runs, requests, emitted,
                 startFiles>>

Next ==
  \/ MainStart
  \/ Request
  \/ ExitLoop
  \/ FetchFails
  \/ FetchNull
  \/ FetchOk
  \/ ExamineItem
  \/ AfterPage
  \/ Delay
  \/ MainPersist

Spec == Init /\ [][Next]_vars

(***************************************************************************)
(* The program without a limit on the page requests of a run: the while    *)
(* loop has no iteration count, so the request counter saturates instead   *)
(* of disabling the request.  Every awaited step of fetchNewResults         *)
(* completes: the request resolves or rejects and the timer fires.         *)
(***************************************************************************)
RequestUnlimited ==
  /\ pc = "loop"
  /\ Len(newResults) < config.maxResults
  /\ requests' = IF requests < MaxRequests THEN requests + 1 ELSE requests
  /\ lastPage' = NoPage
  /\ delayed' = FALSE
  /\ pc' = "fetching"
  /\ UNCHANGED <<config, fileVars, query, processedUrls, startIndex, newResults,
                 scanVars, fetchError, runs, status, ioFailed, rowsThisRun, emitted,
                 startFiles>>

NextLive ==
  \/ MainStart
  \/ RequestUnlimited
  \/ ExitLoop
  \/ FetchFails
  \/ FetchNull
  \/ FetchOk
  \/ ExamineItem
  \/ AfterPage
  \/ Delay
  \/ MainPersist

\* The steps of fetchNewResults.
FetchStep ==
  \/ RequestUnlimited
  \/ ExitLoop
  \/ FetchFails
  \/ FetchNull
  \/ FetchOk
  \/ ExamineItem
  \/ AfterPage
  \/ Delay

SpecLive == Init /\ [][NextLive]_vars /\ WF_vars(FetchStep)

(***************************************************************************)
(* buildQuery over all shapes of the search criteria.                      *)
(***************************************************************************)
MaxTerms == 2

TermJ == <<"j">>
TermKL == <<"k", " ", "l">>
TermPool == [i \in 1..(MaxTerms + 1) |-> IF i % 2 = 1 THEN TermJ ELSE TermKL]

\* A list category: absent, or an array of 0..MaxTerms terms.
TermLists == {<<>>} \cup {<<SubSeq(TermPool, 1, n)>> : n \in 0..MaxTerms}

QueryConfigs ==
  [intitleKeywords : TermLists, keywords : TermLists, domains : TermLists,
   locations : TermLists, avoidKeywords : TermLists, minDate : {<<>>, D2025},
   maxResults : {1}]

InitQuery == config \in QueryConfigs /\ InitRest

NextQuery == MainStart

SpecQuery == InitQuery /\ [][NextQuery]_vars

(***************************************************************************)
(* Properties of the fetch loop.                                           *)
(***************************************************************************)
NormalizedUrls(results) == {normalizeUrl(results[i].URL) : i \in 1..Len(results)}

\* C1: no record returned by fetchNewResults, and no row appended to the CSV
\* in the run, has a URL whose normalized form is in the set of processed
\* URLs that the run loaded.
C1_NoProcessedUrlReturned ==
  /\ NormalizedUrls(newResults) \cap processedUrls = {}
  /\ NormalizedUrls(rowsThisRun) \cap processedUrls = {}

\* A page on which a processed URL was skipped and another item accepted.
C1_Witness ==
  /\ pc = "afterPage"
  /\ verdict = "processed"
  /\ normalizeUrl(OrEmpty(item[1].link)) \in processedUrls
  /\ Len(newResults) > 0

\* C2: with no write failure, a URL emitted as a CSV row in one run is never
\* emitted again as a CSV row in a later run.
C2_NoReEmission ==
  ~ioFailed => \A i \in 1..Len(rowsThisRun) : rowsThisRun[i].URL \notin emitted

\* C3: the accumulator never holds more than the target; once it holds the
\* target, no further item is examined and no further page is requested in
\* the run.
C3_TargetBound ==
  /\ [](/\ Len(newResults) <= config.maxResults
        /\ (Len(newResults) >= config.maxResults
              => pc \notin {"scan", "delay", "fetching"}))
  /\ [][(runs' = runs /\ Len(newResults) >= config.maxResults)
          => /\ requests' = requests
             /\ newResults' = newResults
             /\ examined' <= examined]_vars

\* The target is reached before the last item of the page.
C3_Witness ==
  /\ pc = "afterPage"
  /\ config.maxResults > 0
  /\ Len(newResults) = config.maxResults
  /\ examined < data[1].items[1]

\* C4: with a positive target, when fetchNewResults returns, the accumulator
\* holds the target, or the last response had no items or no next-page
\* hint, or the next offset exceeds 91, or the last request raised an error.
C4_StopCondition ==
  (pc = "returned" /\ config.maxResults > 0)
    => \/ Len(newResults) = config.maxResults
       \/ (lastPage.received /\ (~lastPage.hasItems \/ ~lastPage.hasNext))
       \/ startIndex > 91
       \/ fetchError

\* A first page whose items were all rejected was followed by a second
\* request (offset 91), whose page ended the pagination.
C4_Witness ==
  /\ pc = "returned"
  /\ config.maxResults > 0
  /\ newResults = <<>>
  /\ startIndex = 91
  /\ lastPage.received /\ lastPage.hasItems /\ ~lastPage.hasNext

\* C5: a failing page request ends the fetch at once with the accumulator
\* unchanged, no further request is issued in the run, and main persists
\* exactly the records accumulated before the failure.
C5_AbortOnError ==
  /\ [][(pc = "fetching" /\ fetchError')
          => (pc' = "returned" /\ newResults' = newResults)]_vars
  /\ [][(fetchError /\ runs' = runs)
          => (requests' = requests /\ newResults' = newResults)]_vars
  /\ [](fetchError /\ status = "completed" => rowsThisRun = newResults)

\* The second request of a run failed and the records of the first page
\* were persisted.
C5_Witness ==
  /\ pc = "idle"
  /\ fetchError
  /\ status = "completed"
  /\ Len(rowsThisRun) > 0

\* C6: no two records of the accumulator have the same normalized URL.
C6_NoInRunDuplicates ==
  \A i, j \in 1..Len(newResults) :
    i # j => normalizeUrl(newResults[i].URL) # normalizeUrl(newResults[j].URL)

\* An item was rejected because the accumulator already had its URL.
C6_Witness ==
  /\ pc = "afterPage"
  /\ verdict = "collected"
  /\ normalizeUrl(OrEmpty(item[1].link)) \in NormalizedUrls(newResults)

\* C7: below the target, an examined item is appended if and only if its
\* normalized URL is neither processed nor collected, its title has no
\* avoid-keyword, and it is not dated before a configured minimum date;
\* the accumulator only grows at its end.
C7_AcceptIff ==
  /\ [][(pc = "scan" /\ Len(newResults) < config.maxResults)
          => LET it == item'[1]
                 url == normalizeUrl(OrEmpty(it.link))
                 published == getPublishedDate(it)
                 ok == /\ url \notin processedUrls
                       /\ url \notin NormalizedUrls(newResults)
                       /\ ~containsAvoidKeyword(OrEmpty(it.title),
                                                config.avoidKeywords[1])
                       /\ ~(/\ config.minDate # <<>>
                            /\ published # <<>>
                            /\ DateLess(published[1], NewDate(config.minDate)))
             IN  IF ok
                 THEN newResults' = Append(newResults,
                        [Title |-> OrEmpty(it.title), URL |-> OrEmpty(it.link)])
                 ELSE newResults' = newResults]_vars
  /\ [][runs' = runs
          => /\ Len(newResults') >= Len(newResults)
             /\ SubSeq(newResults', 1, Len(newResults)) = newResults]_vars

\* A page whose first item was rejected and whose second item, one with an
\* avoid-keyword in a title that is accepted when no keyword is configured,
\* was appended.
C7_Witness ==
  /\ pc = "afterPage"
  /\ examined = 2
  /\ verdict = "accept"
  /\ Len(newResults) = 1
  /\ newResults[1] = Record(ItemAvoid)

ExposedDates(it) ==
  IF it.metatags = <<>> THEN {}
  ELSE UNION {{t.article, t.og} \ {<<>>} : t \in Range(it.metatags[1])}

PassesOtherFilters(it) ==
  /\ normalizeUrl(OrEmpty(it.link)) \notin processedUrls
  /\ normalizeUrl(OrEmpty(it.link)) \notin NormalizedUrls(newResults)
  /\ ~containsAvoidKeyword(OrEmpty(it.title), config.avoidKeywords[1])

\* C8: an item is rejected on the date basis only when a minimum date is
\* configured and the item exposes a published date earlier than it; an
\* item without a published date is never rejected on the date basis.
C8_DateAdvisory ==
  [][pc = "scan"
       => LET it == item'[1]
              rejectedOnDate == PassesOtherFilters(it) /\ newResults' = newResults
          IN  /\ rejectedOnDate
                   => /\ config.minDate # <<>>
                      /\ \E d \in ExposedDates(it) :
                           DateLess(NewDate(d), NewDate(config.minDate))
              /\ ExposedDates(it) = {} => ~rejectedOnDate]_vars

\* With a minimum date configured, an item without a published date was
\* accepted after the rejection of another item.
C8_Witness ==
  /\ pc = "afterPage"
  /\ config.minDate # <<>>
  /\ examined = 2
  /\ verdict = "accept"
  /\ Len(newResults) = 1
  /\ ExposedDates(item[1]) = {}

\* C10: a run in which the fetch accepted no item leaves both files as they
\* were when the run started (absent files stay absent).
C10_EmptyRunNoWrites ==
  (pc = "idle" /\ status = "completed" /\ newResults = <<>>) => Files = startFiles

\* The second run in a row that requested a page with items and accepted
\* none, with no CSV file created.
C10_Witness ==
  /\ pc = "idle"
  /\ status = "completed"
  /\ newResults = <<>>
  /\ runs = 2
  /\ requests = 2
  /\ lastPage.hasItems
  /\ ~csvExists

(***************************************************************************)
(* Properties of buildQuery.                                               *)
(***************************************************************************)
CategoryOrder ==
  <<"intitleKeywords", "keywords", "domains", "locations", "avoidKeywords", "minDate">>

IsNonEmptyCategory(c, name) ==
  IF name = "minDate" THEN c.minDate # <<>>
  ELSE c[name] # <<>> /\ Len(c[name][1]) > 0

RECURSIVE nonEmptyFrom(_, _)
nonEmptyFrom(c, names) ==
  IF names = <<>> THEN <<>>
  ELSE IF IsNonEmptyCategory(c, Head(names))
       THEN <<Head(names)>> \o nonEmptyFrom(c, Tail(names))
       ELSE nonEmptyFrom(c, Tail(names))

NonEmptyCategories(c) == nonEmptyFrom(c, CategoryOrder)

\* The pieces of a string between the spaces that are outside parentheses.
RECURSIVE topSplit(_, _, _)
topSplit(rest, depth, cur) ==
  IF rest = <<>> THEN <<cur>>
  ELSE IF Head(rest) = " " /\ depth = 0
       THEN <<cur>> \o topSplit(Tail(rest), 0, <<>>)
       ELSE topSplit(Tail(rest),
                     depth + (IF Head(rest) = "(" THEN 1
                              ELSE IF Head(rest) = ")" THEN -1 ELSE 0),
                     Append(cur, Head(rest)))

TopLevelClauses(q) == topSplit(q, 0, <<>>)

CountChar(q, ch) == Cardinality({i \in 1..Len(q) : q[i] = ch})

StartsWith(q, prefix) == Len(q) >= Len(prefix) /\ SubSeq(q, 1, Len(prefix)) = prefix

IsParenthesized(cl) ==
  /\ cl # <<>>
  /\ cl[Len(cl)] = ")"
  /\ CountChar(cl, "(") = 1
  /\ CountChar(cl, ")") = 1

ClausePrefix(name) ==
  CASE name = "intitleKeywords" -> IntitleOp \o <<"(", "\"">>
    [] name = "keywords" -> <<"(", "\"">>
    [] name = "domains" -> <<"(">> \o SiteOp
    [] name = "locations" -> <<"(", "\"">>
    [] name = "avoidKeywords" -> <<"-", "(", "\"">>
    [] name = "minDate" -> AfterOp

CategoryTerms(c, name) == IF name = "minDate" THEN <<c.minDate>> ELSE c[name][1]

\* The clause carries the operator of the category and each of its terms,
\* OR-combined.
ClauseOfCategory(cl, c, name) ==
  /\ StartsWith(cl, ClausePrefix(name))
  /\ \A k \in 1..Len(CategoryTerms(c, name)) : includes(cl, CategoryTerms(c, name)[k])
  /\ Cardinality({i \in 1..Len(cl) : StartsWith(SubSeq(cl, i, Len(cl)), OrSep)})
       = Len(CategoryTerms(c, name)) - 1

\* C9 as stated: one parenthesized clause per non-empty category, the
\* minimum date included, in the fixed order, separated by single spaces.
C9_EveryClauseParenthesized ==
  (pc = "loop" /\ NonEmptyCategories(config) # <<>>)
    => LET clauses == TopLevelClauses(query)
           cats == NonEmptyCategories(config)
       IN  /\ Len(clauses) = Len(cats)
           /\ \A i \in 1..Len(clauses) :
                /\ i <= Len(cats)
                /\ IsParenthesized(clauses[i])
                /\ ClauseOfCategory(clauses[i], config, cats[i])

\* C9: the query is, in the fixed order and separated by single spaces, one
\* clause per non-empty category: a parenthesized OR-group for each of the
\* five list categories and a bare after: token, without parentheses, for
\* the minimum date; empty or absent categories contribute nothing.
C9_OneClausePerCategory ==
  (pc = "loop" /\ NonEmptyCategories(config) # <<>>)
    => LET clauses == TopLevelClauses(query)
           cats == NonEmptyCategories(config)
       IN  /\ Len(clauses) = Len(cats)
           /\ ~includes(query, <<"(", ")">>)
           /\ \A i \in 1..Len(clauses) :
                /\ i <= Len(cats)
                /\ ClauseOfCategory(clauses[i], config, cats[i])
                /\ IF cats[i] = "minDate"
                   THEN clauses[i] = AfterOp \o config.minDate
                   ELSE IsParenthesized(clauses[i])

\* A query built from criteria in which some categories are empty or
\* absent, several are non-empty and a minimum date is set.
C9_Witness ==
  /\ pc = "loop"
  /\ config.minDate # <<>>
  /\ Len(NonEmptyCategories(config)) = 4
  /\ config.keywords = << <<>> >>
  /\ config.locations = <<>>
  /\ Len(TopLevelClauses(query)) = 4

(***************************************************************************)
(* Properties of the persisted files.                                      *)
(***************************************************************************)
\* The text a run has appended to each file so far.
UrlTextAdded == SubSeq(urlText, Len(startFiles.urlText) + 1, Len(urlText))
CsvTextAdded == SubSeq(csvText, Len(startFiles.csvText) + 1, Len(csvText))

\* The lines of a newline-terminated text.
LinesOf(text) ==
  IF text = <<>> THEN <<>>
  ELSE LET pieces == split(text, "\n") IN SubSeq(pieces, 1, Len(pieces) - 1)

\* C11 as stated: after any run, the URLs added to the URL log are exactly
\* the normalized URLs of the records appended to the CSV in that run.
C11_PairedPersistence ==
  (pc = "idle" /\ runs > 0)
    => Range(LinesOf(UrlTextAdded)) = NormalizedUrls(rowsThisRun)

\* C11: after a run in which no append failed, the lines appended to the URL
\* log are the normalized URLs of the records appended to the CSV, in order;
\* after a run that an append failure ended, nothing was appended to the URL
\* log, whether or not the records reached the CSV.
C11_PairedUnlessAppendFails ==
  (pc = "idle" /\ runs > 0)
    => /\ CsvTextAdded =
            (IF rowsThisRun = <<>> THEN <<>>
             ELSE (IF startFiles.csvExists THEN <<>> ELSE CsvHeader) \o csvRows(rowsThisRun))
       /\ status = "completed"
            => LinesOf(UrlTextAdded) =
                 [i \in 1..Len(rowsThisRun) |-> normalizeUrl(rowsThisRun[i].URL)]
       /\ status = "threw" => UrlTextAdded = <<>>

\* A completed run that persisted two records, one with a URL that differs
\* from its normalized form.
C11_Witness ==
  /\ pc = "idle"
  /\ status = "completed"
  /\ Len(rowsThisRun) = 2
  /\ \E i \in 1..2 : rowsThisRun[i].URL # normalizeUrl(rowsThisRun[i].URL)

\* The index after the quoted field that opens at text[i], scanning from j;
\* a doubled quote inside the field is an escaped quote; 0 when the field
\* is not closed.
RECURSIVE quotedFieldEnd(_, _)
quotedFieldEnd(text, j) ==
  IF j > Len(text) THEN 0
  ELSE IF text[j] # "\"" THEN quotedFieldEnd(text, j + 1)
  ELSE IF j < Len(text) /\ text[j + 1] = "\"" THEN quotedFieldEnd(text, j + 2)
  ELSE j + 1

\* The index after the record row ("title","url" and a newline) that starts
\* at text[i]; 0 when no well-formed row starts there.
recordRowEnd(text, i) ==
  IF i > Len(text) \/ text[i] # "\"" THEN 0
  ELSE LET c == quotedFieldEnd(text, i + 1)
       IN  IF c = 0 \/ c + 1 > Len(text) \/ text[c] # "," \/ text[c + 1] # "\"" THEN 0
           ELSE LET e == quotedFieldEnd(text, c + 2)
                IN  IF e = 0 \/ e > Len(text) \/ text[e] # "\n" THEN 0 ELSE e + 1

\* The number of record rows text consists of from index i on; -1 when the
\* text is not a sequence of record rows.
RECURSIVE countRecordRows(_, _)
countRecordRows(text, i) ==
  IF i > Len(text) THEN 0
  ELSE LET e == recordRowEnd(text, i)
       IN  IF e = 0 THEN -1
           ELSE LET n == countRecordRows(text, e)
                IN  IF n = -1 THEN -1 ELSE n + 1

HeaderLine == <<"T", "i", "t", "l", "e", ",", "U", "R", "L">>

\* A CSV file that starts with the header line, has that line nowhere else
\* and holds only record rows, at least one, after it.
HeaderThenRows(text) ==
  LET lines == split(text, "\n")
  IN  /\ StartsWith(text, HeaderLine \o <<"\n">>)
      /\ countRecordRows(text, Len(HeaderLine) + 2) >= 1
      /\ Cardinality({i \in 1..Len(lines) : lines[i] = HeaderLine}) = 1

\* C12: the header is written only to a file that did not exist: an append
\* to an absent CSV file leaves the header line Title,URL first, followed
\* only by record rows; an append to an existing file adds no header line,
\* and the file still has the header exactly once, as its first line,
\* followed only by record rows.
C12_HeaderOnce ==
  [][(csvText' # csvText \/ csvExists' # csvExists)
       => /\ csvExists'
          /\ HeaderThenRows(csvText')
          /\ csvExists <=> ~StartsWith(SubSeq(csvText', Len(csvText) + 1, Len(csvText')),
                                       HeaderLine \o <<"\n">>)
          /\ ~csvExists => csvText = <<>>
    ]_vars

\* A second run has appended rows to a CSV file that the first run created.
C12_Witness ==
  /\ pc = "idle"
  /\ runs = 2
  /\ startFiles.csvExists
  /\ CsvTextAdded # <<>>

(***************************************************************************)
(* Properties of the pagination.                                           *)
(***************************************************************************)
\* C13: a request that follows another request of the run is issued after
\* exactly one delay, and the first request after none; the delay starts
\* when the for loop has examined the whole page and the target is not
\* reached, and is followed by a request; no run returns after a delay
\* without a request in between.
C13_DelayBetweenRequests ==
  [][/\ (pc = "loop" /\ pc' = "fetching") => (delayed <=> lastPage.received)
     /\ (pc # "delay" /\ pc' = "delay")
          => /\ pc = "afterPage"
             /\ examined = data[1].items[1]
             /\ ~delayed
     /\ (pc = "delay" /\ pc' # "delay")
          => /\ pc' = "loop"
             /\ ~delayed /\ delayed'
             /\ Len(newResults') < config.maxResults
     /\ (~delayed /\ delayed') => pc = "delay"
     /\ pc' \in {"returned", "idle"} => ~delayed'
    ]_vars

\* The second request of a run is in flight.
C13_Witness ==
  /\ pc = "fetching"
  /\ startIndex # 1
  /\ ~delayed

\* C14: a request is in flight only with a start offset of at most 91; a
\* run starts at offset 1; the offset changes only after a page, to the
\* next-page hint of that page, and a hint above 91 ends the pagination.
C14_OffsetCeiling ==
  [][/\ pc' \in {"fetching", "scan", "afterPage"} => startIndex' <= 91
     /\ (pc = "idle" /\ pc' = "loop") => startIndex' = 1
     /\ (startIndex' # startIndex /\ pc # "idle")
          => /\ pc = "afterPage"
             /\ HasNext(data[1])
             /\ startIndex' = data[1].nextPage[1][1].startIndex
             /\ startIndex' > 91 => pc' = "returned"
    ]_vars

\* A next-page hint above the ceiling has ended the pagination.
C14_Witness ==
  /\ pc = "returned"
  /\ startIndex > 91
  /\ requests = 1

\* C15: every run of fetchNewResults terminates, whatever the endpoint
\* answers: a page request is always followed, later, by the return or the
\* throw of fetchNewResults.
C15_RunTerminates == (pc = "fetching") ~> (pc \in {"returned", "idle"})

====
